---- MODULE Spec2Model ----
(***************************************************************************)
(* Model of tracecmd.py, the Python interface to the trace-cmd library.    *)
(*                                                                         *)
(* A capture is a set of per-CPU streams of raw records.  The Trace class  *)
(* keeps the open handle (one read cursor per CPU), the number of CPUs,    *)
(* the event formats of the pevent and two lazily filled caches            *)
(* (_start_time, _end_time).  events() and records() are generators: one   *)
(* pull runs the generator body from where it was suspended to the next    *)
(* yield or to its end.  An Event is the view of one record: it looks      *)
(* fields up in the event format of the record and caches the pid and the  *)
(* process name on first access.                                           *)
(*                                                                         *)
(* The ctracecmd functions (tracecmd_read_data, ...) are the C library     *)
(* behind the SWIG module; they are modelled from the Record Store         *)
(* contract of the design document.                                        *)
(***************************************************************************)
EXTENDS Integers, Sequences, FiniteSets

VARIABLES
    cpus,         \* Trace.cpus
    capture,      \* the capture file: per CPU, the stream of raw records
    formats,      \* the pevent: type-ids that have an event format
    handle,       \* the tracecmd handle: per CPU, the index of the next record
    _start_time,  \* Trace._start_time: None or a list
    _end_time,    \* Trace._end_time: None or a list
    gen,          \* the frame of the events()/records() generator
    last,         \* the last call made on the Trace and what it returned
    lookups,      \* per CPU, how often its first / last record was looked up
    gen2,         \* the frame of a second events() generator
    view,         \* an Event object the caller holds
    obj           \* the Trace object: its construction and who holds it

vars == <<cpus, capture, formats, handle, _start_time, _end_time, gen,
          lookups, gen2, view, obj, last>>

\* ------------------------------------------------------------------ bounds

MaxCpus == 2
MaxRecs == 2
MaxTs == 2

MaxPid == 1

\* ------------------------------------------------------------ python values

None == <<>>
Some(x) == <<x>>

\* range(0, self.cpus)
CpuRange == 0 .. (cpus - 1)

\* --------------------------------------------------------------- the capture

\* timestamps of records; 0 is the "no bound" of start_time and end_time
Timestamps == 1 .. MaxTs

\* timestamps are monotonic per CPU
Monotonic(s) == \A i \in 1 .. (Len(s) - 1) : s[i].ts <= s[i + 1].ts

\* the streams of at most n records whose type-ids are in types
Streams(n, types) ==
    {s \in UNION {[1 .. k -> [ts : Timestamps, type : types]] : k \in 0 .. n} :
        Monotonic(s)}

\* the captures of n CPUs holding at most budget records in all, as
\* sequences of streams
RECURSIVE StreamLists(_, _, _)
StreamLists(n, budget, types) ==
    IF n = 0 THEN {<<>>}
    ELSE UNION {{Append(f, s) : f \in StreamLists(n - 1, budget - Len(s), types)} :
                   s \in Streams(budget, types)}

\* the same, indexed by CPU
Captures(n, types) ==
    {[c \in 0 .. (n - 1) |-> f[c + 1]] : f \in StreamLists(n, MaxRecs, types)}

\* The record at index i of CPU c's stream, as the library hands it out.
RecordAt(c, i) ==
    [cpu |-> c, ts |-> capture[c][i].ts, type |-> capture[c][i].type,
     offset |-> i]

\* ------------------------------------------------- ctracecmd (Record Store)

\* read_next(c): the record under the cursor, and the cursor advanced
tracecmd_read_data(h, cpu) ==
    IF h[cpu] <= Len(capture[cpu])
    THEN [rec |-> Some(RecordAt(cpu, h[cpu])),
          h |-> [h EXCEPT ![cpu] = h[cpu] + 1]]
    ELSE [rec |-> None, h |-> h]

\* peek_next(c): like read_next, the cursor not advanced
tracecmd_peek_data_ref(h, cpu) ==
    IF h[cpu] <= Len(capture[cpu])
    THEN [rec |-> Some(RecordAt(cpu, h[cpu])), h |-> h]
    ELSE [rec |-> None, h |-> h]

\* index of the first record of CPU c with timestamp >= ts (Len + 1: none)
FirstAtOrAfter(c, ts) ==
    LET hits == {i \in 1 .. Len(capture[c]) : capture[c][i].ts >= ts}
    IN  IF hits = {} THEN Len(capture[c]) + 1
        ELSE CHOOSE i \in hits : \A j \in hits : i <= j

\* seek_to_timestamp(c, T)
tracecmd_set_cpu_to_timestamp(h, cpu, ts) ==
    [h EXCEPT ![cpu] = FirstAtOrAfter(cpu, ts)]

\* seek_to_timestamp(all, T)
tracecmd_set_all_cpus_to_timestamp(h, ts) ==
    [c \in DOMAIN h |-> FirstAtOrAfter(c, ts)]

\* first(c): the earliest record of CPU c, the cursor not disturbed
tracecmd_read_cpu_first(h, cpu) ==
    IF Len(capture[cpu]) > 0
    THEN [rec |-> Some(RecordAt(cpu, 1)), h |-> h]
    ELSE [rec |-> None, h |-> h]

\* last(c): the latest record of CPU c, the cursor not disturbed
tracecmd_read_cpu_last(h, cpu) ==
    IF Len(capture[cpu]) > 0
    THEN [rec |-> Some(RecordAt(cpu, Len(capture[cpu]))), h |-> h]
    ELSE [rec |-> None, h |-> h]

\* by_type_id(id): whether the pevent has an event format for the type-id
pevent_data_event_from_type(type) == type \in formats

\* ------------------------------------------------- pevent (Field Decoder)

\* the fields an event format can declare, and their kind
FieldKinds ==
    [n \in {"common_pid", "next_pid", "next_comm"} |->
        IF n = "next_comm" THEN "string" ELSE "int"]

\* the names a caller asks for
FieldNames == DOMAIN FieldKinds \cup {"nonexistent"}

\* the process ids in the records
Pids == 0 .. MaxPid

\* the pid -> name table of the session
cmdlines == [p \in {0} |-> "<idle>"]

\* the lookup of a field by name in an event format
pevent_find_field(format, n) == IF n \in format THEN Some(n) ELSE None

\* the same, the common fields included
pevent_find_any_field(format, n) == IF n \in format THEN Some(n) ELSE None

\* the number in an integer field; non-zero ret for a field that is none
pevent_read_number_field(f, data) ==
    IF FieldKinds[f] = "int"
    THEN [ret |-> 0, val |-> data[f]]
    ELSE [ret |-> -1, val |-> 0]

\* the process id: the common_pid field of the record
pevent_data_pid(data) == data["common_pid"]

\* the process name of a pid, "<...>" for a pid the table does not have
pevent_data_comm_from_pid(p) ==
    IF p \in DOMAIN cmdlines THEN cmdlines[p] ELSE "<...>"

\* ----------------------------------------------------------- Event, Field

\* The Event objects of the records of an event format that declares the
\* fields in format: the numbers in the record's integer fields, the two
\* attribute caches, and how often the pid and the name were resolved.
EventsOf(format) ==
    {[format |-> format, data |-> d, _pid |-> None, _comm |-> None,
      calls |-> [pid |-> 0, comm |-> 0]] :
        d \in [{n \in format : FieldKinds[n] = "int"} -> Pids]}

\* every event format declares the common field common_pid
Events ==
    UNION {EventsOf(format \cup {"common_pid"}) :
              format \in SUBSET (DOMAIN FieldKinds)}

\* __getitem__ clearing the cached attributes when the field is missing
Event_getitem_clearing(v, n) ==
    LET f == pevent_find_field(v.format, n)
    IN  IF f = None
        THEN [raised |-> TRUE, val |-> Some("KeyError"),
              view |-> [v EXCEPT !._pid = None, !._comm = None]]
        ELSE [raised |-> FALSE, val |-> Some([field |-> f[1]]), view |-> v]

\* Event.__getitem__: a Field, or KeyError
Event_getitem(v, n) ==
    LET f == pevent_find_field(v.format, n)
    IN  IF f = None
        THEN [raised |-> TRUE, val |-> Some("KeyError"), view |-> v]
        ELSE [raised |-> FALSE, val |-> Some([field |-> f[1]]), view |-> v]

\* Field.__long__ (and __int__) of the Field of field f
Field_long(v, f) ==
    LET r == pevent_read_number_field(f, v.data)
    IN  IF r.ret # 0
        THEN [raised |-> TRUE, val |-> Some("FieldError"), view |-> v]
        ELSE [raised |-> FALSE, val |-> Some(r.val), view |-> v]

\* Event.num_field
Event_num_field(v, n) ==
    LET f == pevent_find_any_field(v.format, n)
    IN  IF f = None
        THEN [raised |-> FALSE, val |-> None, view |-> v]
        ELSE LET r == pevent_read_number_field(f[1], v.data)
             IN  IF r.ret # 0
                 THEN [raised |-> FALSE, val |-> None, view |-> v]
                 ELSE [raised |-> FALSE, val |-> Some(r.val), view |-> v]

\* the property pid testing `if not self._pid`
Event_pid_truthy(v) ==
    IF v._pid = None \/ v._pid = Some(0)
    THEN LET p == pevent_data_pid(v.data)
         IN  [raised |-> FALSE, val |-> Some(p),
              view |-> [v EXCEPT !._pid = Some(p), !.calls.pid = @ + 1]]
    ELSE [raised |-> FALSE, val |-> v._pid, view |-> v]

\* the property Event.pid
Event_pid(v) ==
    IF v._pid = None
    THEN LET p == pevent_data_pid(v.data)
         IN  [raised |-> FALSE, val |-> Some(p),
              view |-> [v EXCEPT !._pid = Some(p), !.calls.pid = @ + 1]]
    ELSE [raised |-> FALSE, val |-> v._pid, view |-> v]

\* the property Event.comm: it reads self.pid
Event_comm(v) ==
    IF v._comm = None
    THEN LET p == Event_pid(v)
             c == pevent_data_comm_from_pid(p.val[1])
         IN  [raised |-> FALSE, val |-> Some(c),
              view |-> [p.view EXCEPT !._comm = Some(c),
                                      !.calls.comm = @ + 1]]
    ELSE [raised |-> FALSE, val |-> v._comm, view |-> v]

\* ----------------------------------------------------------------- Trace

\* What the file given to Trace() is: a valid capture, a file whose headers
\* cannot be read, a file whose data cannot be initialised.
Files == {"valid", "bad_headers", "bad_data"}

\* the library reports a failure with a non-zero return value
tracecmd_read_headers(file) == IF file = "bad_headers" THEN -1 ELSE 0

tracecmd_init_data(file) == IF file = "bad_data" THEN -1 ELSE 0

\* the attributes Trace.__init__ assigns on self
TraceAttrs == {"_handle", "cpus", "_pevent", "_start_time", "_end_time"}

\* __init__ returning where it has to raise
Trace__init__returning(file) ==
    LET self == {"_handle"}
    IN  IF tracecmd_read_headers(file) # 0
        THEN [raised |-> None, self |-> self]
        ELSE IF tracecmd_init_data(file) # 0
        THEN [raised |-> None, self |-> self]
        ELSE [raised |-> None, self |-> TraceAttrs]

\* Trace.__init__: the exception it raises (or None) and the attributes it
\* has assigned on self when it returns or raises
Trace__init__(file) ==
    LET self == {"_handle"}
    IN  IF tracecmd_read_headers(file) # 0
        THEN [raised |-> Some("FileFormatError"), self |-> self]
        ELSE IF tracecmd_init_data(file) # 0
        THEN [raised |-> Some("FileFormatError"), self |-> self]
        ELSE [raised |-> None, self |-> TraceAttrs]

\* No Trace yet: the caller is about to open `file`.
NoTrace(file) ==
    [file |-> file, pc |-> "none", raised |-> None, self |-> {},
     held |-> FALSE]

\* The expression Trace(file): the new object is bound to the caller's name
\* when __init__ returns; when __init__ raises, the exception propagates and
\* the caller is left without a reference to the object.
Trace(file) ==
    LET r == Trace__init__(file)
    IN  [file |-> file, pc |-> "done", raised |-> r.raised, self |-> r.self,
         held |-> r.raised = None]

\* Event.__init__: the view keeps the record's cpu, ts and type
Event(record, type) ==
    [cpu |-> record.cpu, ts |-> record.ts, type |-> type,
     offset |-> record.offset]

\* Trace.record_to_event
record_to_event(record) ==
    IF record # None
    THEN LET type == record[1].type
         IN  IF type # 0 /\ pevent_data_event_from_type(type)
             THEN Some(Event(record[1], type))
             ELSE None
    ELSE None

\* Trace.read_event
read_event(h, cpu) ==
    LET r == tracecmd_read_data(h, cpu)
    IN  [val |-> record_to_event(r.rec), h |-> r.h]

\* peek_event() calling the reading function of the library
peek_event_consuming(h, cpu) ==
    LET r == tracecmd_read_data(h, cpu)
    IN  IF r.rec = None
        THEN [val |-> None, h |-> r.h]
        ELSE [val |-> record_to_event(r.rec), h |-> r.h]

\* Trace.peek_event
peek_event(h, cpu) ==
    LET r == tracecmd_peek_data_ref(h, cpu)
    IN  IF r.rec = None
        THEN [val |-> None, h |-> r.h]
        ELSE [val |-> record_to_event(r.rec), h |-> r.h]

\* rewind() dropping its start_time: every seek goes to the first record
rewind_to_start(h, cpu, start_time) ==
    IF cpu \in CpuRange
    THEN tracecmd_set_cpu_to_timestamp(h, cpu, 0)
    ELSE tracecmd_set_all_cpus_to_timestamp(h, 0)

\* rewind() seeking every CPU, whatever CPU it is called with
rewind_every_cpu(h, cpu, start_time) ==
    tracecmd_set_all_cpus_to_timestamp(h, start_time)

\* Trace.rewind
rewind(h, cpu, start_time) ==
    IF cpu \in CpuRange
    THEN tracecmd_set_cpu_to_timestamp(h, cpu, start_time)
    ELSE tracecmd_set_all_cpus_to_timestamp(h, start_time)

\* ------------------------------------------------- Trace.events / records

\* The generator frame: no call yet.
NoGenerator ==
    [pc |-> "none", kind |-> "none", target_cpu |-> -1, start_time |-> 0,
     end_time |-> 0, cpu |-> 0, out |-> <<>>]

\* events() testing the end_time bound with >= instead of >
RECURSIVE events_end_exclusive(_, _, _, _)
events_end_exclusive(g, cpu, in_while, h) ==
    IF cpu >= cpus
    THEN [gen |-> [g EXCEPT !.pc = "exhausted"], h |-> h]
    ELSE IF ~in_while
    THEN IF g.target_cpu = cpu \/ g.target_cpu = -1
         THEN events_end_exclusive(g, cpu, TRUE, rewind(h, cpu, g.start_time))
         ELSE events_end_exclusive(g, cpu + 1, FALSE, h)
    ELSE LET r == read_event(h, cpu)
         IN  IF r.val = None
             THEN events_end_exclusive(g, cpu + 1, FALSE, r.h)
             ELSE IF g.end_time > 0 /\ r.val[1].ts >= g.end_time
             THEN events_end_exclusive(g, cpu + 1, FALSE, r.h)
             ELSE [gen |-> [g EXCEPT !.pc = "suspended", !.cpu = cpu,
                                     !.out = Append(@, r.val[1])],
                   h |-> r.h]

\* events() with the rewind moved into the while loop: the stream is sought
\* again before every read.
RECURSIVE events_rewinding_each_read(_, _, _, _)
events_rewinding_each_read(g, cpu, in_while, h) ==
    IF cpu >= cpus
    THEN [gen |-> [g EXCEPT !.pc = "exhausted"], h |-> h]
    ELSE IF ~(g.target_cpu = cpu \/ g.target_cpu = -1)
    THEN events_rewinding_each_read(g, cpu + 1, FALSE, h)
    ELSE LET r == read_event(rewind(h, cpu, g.start_time), cpu)
         IN  IF r.val = None
             THEN events_rewinding_each_read(g, cpu + 1, FALSE, r.h)
             ELSE IF g.end_time > 0 /\ r.val[1].ts > g.end_time
             THEN events_rewinding_each_read(g, cpu + 1, FALSE, r.h)
             ELSE [gen |-> [g EXCEPT !.pc = "suspended", !.cpu = cpu,
                                     !.out = Append(@, r.val[1])],
                   h |-> r.h]

\* events() looking at the next event with peek_event(): no read advances
\* the cursor
RECURSIVE events_peeking(_, _, _, _)
events_peeking(g, cpu, in_while, h) ==
    IF cpu >= cpus
    THEN [gen |-> [g EXCEPT !.pc = "exhausted"], h |-> h]
    ELSE IF ~in_while
    THEN IF g.target_cpu = cpu \/ g.target_cpu = -1
         THEN events_peeking(g, cpu, TRUE, rewind(h, cpu, g.start_time))
         ELSE events_peeking(g, cpu + 1, FALSE, h)
    ELSE LET r == peek_event(h, cpu)
         IN  IF r.val = None
             THEN events_peeking(g, cpu + 1, FALSE, r.h)
             ELSE IF g.end_time > 0 /\ r.val[1].ts > g.end_time
             THEN events_peeking(g, cpu + 1, FALSE, r.h)
             ELSE [gen |-> [g EXCEPT !.pc = "suspended", !.cpu = cpu,
                                     !.out = Append(@, r.val[1])],
                   h |-> r.h]

\* events() looking ahead with peek_event(): it reads only what it yields
RECURSIVE events_looking_ahead(_, _, _, _)
events_looking_ahead(g, cpu, in_while, h) ==
    IF cpu >= cpus
    THEN [gen |-> [g EXCEPT !.pc = "exhausted"], h |-> h]
    ELSE IF ~in_while
    THEN IF g.target_cpu = cpu \/ g.target_cpu = -1
         THEN events_looking_ahead(g, cpu, TRUE,
                                   rewind(h, cpu, g.start_time))
         ELSE events_looking_ahead(g, cpu + 1, FALSE, h)
    ELSE LET r == peek_event(h, cpu)
         IN  IF r.val = None
             THEN events_looking_ahead(g, cpu + 1, FALSE, r.h)
             ELSE IF g.end_time > 0 /\ r.val[1].ts > g.end_time
             THEN events_looking_ahead(g, cpu + 1, FALSE, r.h)
             ELSE [gen |-> [g EXCEPT !.pc = "suspended", !.cpu = cpu,
                                     !.out = Append(@, r.val[1])],
                   h |-> read_event(r.h, cpu).h]

\* events() without the rewind of the CPU it is about to read
RECURSIVE events_not_seeking(_, _, _, _)
events_not_seeking(g, cpu, in_while, h) ==
    IF cpu >= cpus
    THEN [gen |-> [g EXCEPT !.pc = "exhausted"], h |-> h]
    ELSE IF ~in_while
    THEN IF g.target_cpu = cpu \/ g.target_cpu = -1
         THEN events_not_seeking(g, cpu, TRUE, h)
         ELSE events_not_seeking(g, cpu + 1, FALSE, h)
    ELSE LET r == read_event(h, cpu)
         IN  IF r.val = None
             THEN events_not_seeking(g, cpu + 1, FALSE, r.h)
             ELSE IF g.end_time > 0 /\ r.val[1].ts > g.end_time
             THEN events_not_seeking(g, cpu + 1, FALSE, r.h)
             ELSE [gen |-> [g EXCEPT !.pc = "suspended", !.cpu = cpu,
                                     !.out = Append(@, r.val[1])],
                   h |-> r.h]

\* Trace.events: the body from the top of the for loop at `cpu` (in_while:
\* from the top of the while loop of `cpu`) to the next yield or to the end.
RECURSIVE events(_, _, _, _)
events(g, cpu, in_while, h) ==
    IF cpu >= cpus
    THEN [gen |-> [g EXCEPT !.pc = "exhausted"], h |-> h]
    ELSE IF ~in_while
    THEN IF g.target_cpu = cpu \/ g.target_cpu = -1
         THEN events(g, cpu, TRUE, rewind(h, cpu, g.start_time))
         ELSE events(g, cpu + 1, FALSE, h)
    ELSE LET r == read_event(h, cpu)
         IN  IF r.val = None
             THEN events(g, cpu + 1, FALSE, r.h)
             ELSE IF g.end_time > 0 /\ r.val[1].ts > g.end_time
             THEN events(g, cpu + 1, FALSE, r.h)
             ELSE [gen |-> [g EXCEPT !.pc = "suspended", !.cpu = cpu,
                                     !.out = Append(@, r.val[1])],
                   h |-> r.h]

\* Trace.records: the same loop over raw records.
RECURSIVE records(_, _, _, _)
records(g, cpu, in_while, h) ==
    IF cpu >= cpus
    THEN [gen |-> [g EXCEPT !.pc = "exhausted"], h |-> h]
    ELSE IF ~in_while
    THEN IF g.target_cpu = cpu \/ g.target_cpu = -1
         THEN records(g, cpu, TRUE, rewind(h, cpu, g.start_time))
         ELSE records(g, cpu + 1, FALSE, h)
    ELSE LET r == tracecmd_read_data(h, cpu)
         IN  IF r.rec = None
             THEN records(g, cpu + 1, FALSE, r.h)
             ELSE IF g.end_time > 0 /\ r.rec[1].ts > g.end_time
             THEN records(g, cpu + 1, FALSE, r.h)
             ELSE [gen |-> [g EXCEPT !.pc = "suspended", !.cpu = cpu,
                                     !.out = Append(@, r.rec[1])],
                   h |-> r.h]

\* One pull (next()) of the generator held in frame g, on handle h.
Resume(g, h) ==
    LET cpu == IF g.pc = "created" THEN 0 ELSE g.cpu
        in_while == g.pc = "suspended"
    IN  IF g.kind = "events"
        THEN events(g, cpu, in_while, h)
        ELSE records(g, cpu, in_while, h)

\* All records a generator called with these arguments yields when it is
\* pulled to its end, starting on handle h.
RECURSIVE Drain(_, _)
Drain(g, h) ==
    IF g.pc = "exhausted" THEN g.out
    ELSE LET r == Resume(g, h) IN Drain(r.gen, r.h)

\* ------------------------------------------- Trace.start_time / end_time

\* list[i] with a Python index: -1 is the last element
PyIndex(list, i) == IF i >= 0 THEN list[i + 1] ELSE list[Len(list) + i + 1]

PositiveOf(list) == {list[i] : i \in 1 .. Len(list)} \cap {v \in Nat : v > 0}

min(S) == CHOOSE v \in S : \A w \in S : v <= w
max(S) == CHOOSE v \in S : \A w \in S : v >= w

\* the loop of start_time looking the first record up by seeking to the
\* start of the stream and reading
RECURSIVE start_time_loop_seeking(_, _, _, _, _)
start_time_loop_seeking(next, cpu, h, list, lk) ==
    IF next >= cpus
    THEN [cpu |-> cpu, h |-> h, list |-> list, lookups |-> lk]
    ELSE LET r == tracecmd_read_data(
                      tracecmd_set_cpu_to_timestamp(h, next, 0), next)
         IN  start_time_loop_seeking(next + 1, next, r.h,
                 Append(list, IF r.rec # None THEN r.rec[1].ts ELSE 0),
                 [lk EXCEPT ![next].first = @ + 1])

\* for cpu in range(0, self.cpus): append the first record's timestamp.
\* `cpu` in the result is the value the loop leaves in the variable cpu,
\* which is the parameter of the property (-1 before the loop).
RECURSIVE start_time_loop(_, _, _, _, _)
start_time_loop(next, cpu, h, list, lk) ==
    IF next >= cpus
    THEN [cpu |-> cpu, h |-> h, list |-> list, lookups |-> lk]
    ELSE LET r == tracecmd_read_cpu_first(h, next)
         IN  start_time_loop(next + 1, next, r.h,
                 Append(list, IF r.rec # None THEN r.rec[1].ts ELSE 0),
                 [lk EXCEPT ![next].first = @ + 1])

\* the getter of the property Trace.start_time
start_time(h, cache, lk) ==
    IF cache = None
    THEN LET l == start_time_loop(0, -1, h, <<>>, lk)
         IN  IF PositiveOf(l.list) = {}
             \* min() of an empty list raises ValueError
             THEN [raised |-> TRUE, val |-> None, cache |-> Some(l.list),
                   h |-> l.h, lookups |-> l.lookups]
             ELSE LET full == Append(l.list, min(PositiveOf(l.list)))
                  IN  [raised |-> FALSE, val |-> Some(PyIndex(full, l.cpu)),
                       cache |-> Some(full), h |-> l.h,
                       lookups |-> l.lookups]
    ELSE [raised |-> FALSE, val |-> Some(PyIndex(cache[1], -1)),
          cache |-> cache, h |-> h, lookups |-> lk]

RECURSIVE end_time_loop(_, _, _, _, _)
end_time_loop(next, cpu, h, list, lk) ==
    IF next >= cpus
    THEN [cpu |-> cpu, h |-> h, list |-> list, lookups |-> lk]
    ELSE LET r == tracecmd_read_cpu_last(h, next)
         IN  end_time_loop(next + 1, next, r.h,
                 Append(list, IF r.rec # None THEN r.rec[1].ts ELSE 0),
                 [lk EXCEPT ![next].last = @ + 1])

\* the getter of the property Trace.end_time
end_time(h, cache, lk) ==
    IF cache = None
    THEN LET l == end_time_loop(0, -1, h, <<>>, lk)
         IN  IF PositiveOf(l.list) = {}
             \* max() of an empty list raises ValueError
             THEN [raised |-> TRUE, val |-> None, cache |-> Some(l.list),
                   h |-> l.h, lookups |-> l.lookups]
             ELSE LET full == Append(l.list, max(PositiveOf(l.list)))
                  IN  [raised |-> FALSE, val |-> Some(PyIndex(full, l.cpu)),
                       cache |-> Some(full), h |-> l.h,
                       lookups |-> l.lookups]
    ELSE [raised |-> FALSE, val |-> Some(PyIndex(cache[1], -1)),
          cache |-> cache, h |-> h, lookups |-> lk]

\* ------------------------------------------------------------------ actions

\* The log of a call: what was called, with what, and what came back.  For
\* read_event(cpu), `after` tells the call made just before it when that was
\* rewind(cpu, ts) or peek_event(cpu) on the same CPU.
Call(op, cpu, arg, raised, val) ==
    [op |-> op, cpu |-> cpu, arg |-> arg, raised |-> raised, val |-> val,
     after |-> IF op = "read_event" /\ last.cpu = cpu
                  /\ last.op \in {"rewind", "peek_event"}
               THEN <<last.op>> \o last.arg
               ELSE <<>>]

NoCall ==
    [op |-> "none", cpu |-> -1, arg |-> <<>>, raised |-> FALSE, val |-> None,
     after |-> <<>>]

\* t.start_time
StartTime ==
    LET r == start_time(handle, _start_time, lookups)
    IN  /\ _start_time' = r.cache
        /\ handle' = r.h
        /\ lookups' = r.lookups
        /\ last' = Call("start_time", -1, <<>>, r.raised, r.val)
        /\ UNCHANGED <<cpus, capture, formats, _end_time, gen>>
        /\ UNCHANGED <<gen2, view, obj>>

\* t.end_time
EndTime ==
    LET r == end_time(handle, _end_time, lookups)
    IN  /\ _end_time' = r.cache
        /\ handle' = r.h
        /\ lookups' = r.lookups
        /\ last' = Call("end_time", -1, <<>>, r.raised, r.val)
        /\ UNCHANGED <<cpus, capture, formats, _start_time, gen>>
        /\ UNCHANGED <<gen2, view, obj>>

\* t.rewind(cpu, start_time)
Rewind(cpu, ts) ==
    /\ handle' = rewind(handle, cpu, ts)
    /\ last' = Call("rewind", cpu, <<ts>>, FALSE, None)
    /\ UNCHANGED <<cpus, capture, formats, _start_time, _end_time, gen,
                   lookups, gen2, view, obj>>

\* t.read_event(cpu)
ReadEvent(cpu) ==
    LET r == read_event(handle, cpu)
    IN  /\ handle' = r.h
        /\ last' = Call("read_event", cpu, <<>>, FALSE, r.val)
        /\ UNCHANGED <<cpus, capture, formats, _start_time, _end_time, gen,
                       lookups, gen2, view, obj>>

\* t.peek_event(cpu)
PeekEvent(cpu) ==
    LET r == peek_event(handle, cpu)
    IN  /\ handle' = r.h
        /\ last' = Call("peek_event", cpu, <<>>, FALSE, r.val)
        /\ UNCHANGED <<cpus, capture, formats, _start_time, _end_time, gen,
                       lookups, gen2, view, obj>>

\* t.events(cpu, start_time, end_time): the generator is created, not run
CallEvents(cpu, ts, te) ==
    /\ gen.pc = "none"
    /\ gen' = [NoGenerator EXCEPT !.pc = "created", !.kind = "events",
                                  !.target_cpu = cpu, !.start_time = ts,
                                  !.end_time = te]
    /\ last' = Call("events", cpu, <<ts, te>>, FALSE, None)
    /\ UNCHANGED <<cpus, capture, formats, handle, _start_time, _end_time,
                   lookups, gen2, view, obj>>

\* t.records(cpu, start_time, end_time)
CallRecords(cpu, ts, te) ==
    /\ gen.pc = "none"
    /\ gen' = [NoGenerator EXCEPT !.pc = "created", !.kind = "records",
                                  !.target_cpu = cpu, !.start_time = ts,
                                  !.end_time = te]
    /\ last' = Call("records", cpu, <<ts, te>>, FALSE, None)
    /\ UNCHANGED <<cpus, capture, formats, handle, _start_time, _end_time,
                   lookups, gen2, view, obj>>

\* next() on the generator: StopIteration is raised when it is exhausted
Pull ==
    /\ gen.pc \in {"created", "suspended"}
    /\ LET r == Resume(gen, handle)
       IN  /\ gen' = r.gen
           /\ handle' = r.h
           /\ last' = IF r.gen.pc = "exhausted"
                      THEN Call("next", -1, <<>>, TRUE, None)
                      ELSE Call("next", -1, <<>>, FALSE,
                                Some(r.gen.out[Len(r.gen.out)]))
    /\ UNCHANGED <<cpus, capture, formats, _start_time, _end_time, lookups,
                   gen2, view, obj>>

\* another call of t.events(cpu, start_time, end_time): a second generator
CallEvents2(cpu, ts, te) ==
    /\ gen2.pc = "none"
    /\ gen2' = [NoGenerator EXCEPT !.pc = "created", !.kind = "events",
                                   !.target_cpu = cpu, !.start_time = ts,
                                   !.end_time = te]
    /\ last' = Call("events", cpu, <<ts, te>>, FALSE, None)
    /\ UNCHANGED <<cpus, capture, formats, handle, _start_time, _end_time,
                   lookups, gen, view, obj>>

\* next() on the second generator
Pull2 ==
    /\ gen2.pc \in {"created", "suspended"}
    /\ LET r == Resume(gen2, handle)
       IN  /\ gen2' = r.gen
           /\ handle' = r.h
           /\ last' = IF r.gen.pc = "exhausted"
                      THEN Call("next", -1, <<>>, TRUE, None)
                      ELSE Call("next", -1, <<>>, FALSE,
                                Some(r.gen.out[Len(r.gen.out)]))
    /\ UNCHANGED <<cpus, capture, formats, _start_time, _end_time, lookups,
                   gen, view, obj>>

\* t = Trace(filename)
Construct ==
    /\ obj.pc = "none"
    /\ obj' = Trace(obj.file)
    /\ last' = IF Trace(obj.file).raised # None
               THEN Call("Trace", -1, <<>>, TRUE, Trace(obj.file).raised)
               ELSE Call("Trace", -1, <<>>, FALSE, None)
    /\ UNCHANGED <<cpus, capture, formats, handle, _start_time, _end_time,
                   gen, lookups, gen2, view>>

\* The caller drops the first generator before it is exhausted: the
\* generator is closed and runs no more.
Close ==
    /\ gen.pc \in {"created", "suspended"}
    /\ gen' = [gen EXCEPT !.pc = "closed"]
    /\ last' = Call("close", -1, <<>>, FALSE, None)
    /\ UNCHANGED <<cpus, capture, formats, handle, _start_time, _end_time,
                   lookups, gen2, view, obj>>

\* an access of the Event the caller holds: it touches the Event only
Access(op, n, r) ==
    /\ view' = r.view
    /\ last' = Call(op, -1, n, r.raised, r.val)
    /\ UNCHANGED <<cpus, capture, formats, handle, _start_time, _end_time,
                   gen, lookups, gen2, obj>>

\* e[n]
GetItem(n) == Access("getitem", <<n>>, Event_getitem(view, n))

\* int(e[n]), long(e[n]): e[n] is a Field, n is a field of the format
FieldLong(n) ==
    /\ ~Event_getitem(view, n).raised
    /\ Access("int", <<n>>, Field_long(view, n))

\* e.num_field(n)
NumField(n) == Access("num_field", <<n>>, Event_num_field(view, n))

\* e.pid
Pid == Access("pid", <<>>, Event_pid(view))

\* e.comm
Comm == Access("comm", <<>>, Event_comm(view))

\* ---------------------------------------------------------- specifications

\* Trace.__init__ on a valid capture whose records have type-ids in types
\* and whose pevent has an event format for the type-ids in fmts; the caller
\* holds the Trace and no Event.
OpenedWith(types, fmts) ==
    /\ cpus \in 1 .. MaxCpus
    /\ capture \in Captures(cpus, types)
    /\ formats = fmts
    /\ handle = [c \in 0 .. (cpus - 1) |-> 1]
    /\ _start_time = None
    /\ _end_time = None
    /\ gen = NoGenerator
    /\ last = NoCall
    /\ lookups = [c \in 0 .. (cpus - 1) |-> [first |-> 0, last |-> 0]]
    /\ gen2 = NoGenerator
    /\ view = None
    /\ obj = Trace("valid")

\* the same, type-id 1 being the one type-id with an event format
Opened(types) == OpenedWith(types, {1})

\* type-id 1 has an event format, type-id 2 has none
Init == Opened({1, 2})

\* every record has an event format
InitKnown == Opened({1})

\* type-ids 0 and 1 have an event format, type-id 2 has none
InitTyped == OpenedWith({0, 1, 2}, {0, 1})

\* Before Trace(filename): the file is a capture (every record with an event
\* format) that opens, or one on which the library fails.
Unopened ==
    /\ cpus \in 1 .. MaxCpus
    /\ capture \in Captures(cpus, {1})
    /\ formats = {1}
    /\ handle = [c \in 0 .. (cpus - 1) |-> 1]
    /\ _start_time = None
    /\ _end_time = None
    /\ gen = NoGenerator
    /\ last = NoCall
    /\ lookups = [c \in 0 .. (cpus - 1) |-> [first |-> 0, last |-> 0]]
    /\ gen2 = NoGenerator
    /\ view = None
    /\ \E file \in Files : obj = NoTrace(file)

\* e = t.read_event(0) has returned the Event of the one record of a capture
InitEvent ==
    /\ cpus = 1
    /\ capture = [c \in {0} |-> <<[ts |-> 1, type |-> 1]>>]
    /\ formats = {1}
    /\ handle = [c \in {0} |-> 2]
    /\ _start_time = None
    /\ _end_time = None
    /\ gen = NoGenerator
    /\ last = NoCall
    /\ lookups = [c \in {0} |-> [first |-> 0, last |-> 0]]
    /\ gen2 = NoGenerator
    /\ view \in Events
    /\ obj = Trace("valid")

\* the selectors of events(), records() and rewind(): a CPU, or -1 for all
Selectors == -1 .. (cpus - 1)

\* the time bounds a caller passes: 0 is "no bound"
Bounds == 0 .. MaxTs

\* one iteration with events()
NextEvents ==
    \/ \E cpu \in Selectors, ts \in Bounds, te \in Bounds :
            CallEvents(cpu, ts, te)
    \/ Pull

SpecEvents == Init /\ [][NextEvents]_vars

\* one iteration with events() or records()
NextIter ==
    \/ \E cpu \in Selectors, ts \in Bounds, te \in Bounds :
            CallEvents(cpu, ts, te)
    \/ \E cpu \in Selectors, ts \in Bounds, te \in Bounds :
            CallRecords(cpu, ts, te)
    \/ Pull

SpecIter == Init /\ [][NextIter]_vars

\* one iteration over every record of the selected CPUs
NextWhole ==
    \/ \E cpu \in Selectors : CallEvents(cpu, 0, 0)
    \/ \E cpu \in Selectors : CallRecords(cpu, 0, 0)
    \/ Pull

SpecWhole == InitKnown /\ [][NextWhole]_vars

\* the same, the reader pulling on as long as the generator is not exhausted
SpecWholeFair == SpecWhole /\ WF_vars(Pull)

\* accesses of the two cached properties
NextTime == StartTime \/ EndTime

SpecTime == InitKnown /\ [][NextTime]_vars

\* seeking and reading
NextSeek ==
    \/ \E cpu \in Selectors, ts \in Bounds : Rewind(cpu, ts)
    \/ \E cpu \in CpuRange : ReadEvent(cpu)

SpecSeek == Init /\ [][NextSeek]_vars

\* peeking and reading
NextPeek ==
    \/ \E cpu \in CpuRange : PeekEvent(cpu)
    \/ \E cpu \in CpuRange : ReadEvent(cpu)

SpecPeek == Init /\ [][NextPeek]_vars

\* accesses of the cached properties between reads and during an iteration
NextAccess ==
    \/ StartTime
    \/ EndTime
    \/ \E cpu \in Selectors : CallEvents(cpu, 0, 0)
    \/ Pull
    \/ \E cpu \in CpuRange : ReadEvent(cpu)

SpecAccess == InitKnown /\ [][NextAccess]_vars

\* whether the first iteration is over: finished or abandoned
Over == gen.pc \in {"exhausted", "closed"}

\* A first iteration, finished or abandoned; then reads, and seeks with the
\* CPU selector of the iteration; then a fresh call of events() with the
\* arguments of the first one, pulled to its end by a single reader.
NextRestart ==
    \/ \E cpu \in Selectors, ts \in Bounds : CallEvents(cpu, ts, 0)
    \/ Pull
    \/ Close
    \/ \E cpu \in CpuRange : Over /\ gen2.pc = "none" /\ ReadEvent(cpu)
    \/ \E ts \in Bounds :
            Over /\ gen2.pc = "none" /\ Rewind(gen.target_cpu, ts)
    \/ Over /\ CallEvents2(gen.target_cpu, gen.start_time, gen.end_time)
    \/ Pull2

SpecRestart == InitKnown /\ [][NextRestart]_vars

\* reading and peeking: every record is handed to record_to_event()
NextConvert ==
    \/ \E cpu \in CpuRange : ReadEvent(cpu)
    \/ \E cpu \in CpuRange : PeekEvent(cpu)

SpecConvert == InitTyped /\ [][NextConvert]_vars

\* opening a file, and using the Trace the caller got
NextOpen ==
    \/ Construct
    \/ \E cpu \in CpuRange : obj.held /\ ReadEvent(cpu)
    \/ obj.held /\ StartTime
    \/ obj.held /\ EndTime

SpecOpen == Unopened /\ [][NextOpen]_vars

\* accesses of one Event
NextEvent ==
    \/ \E n \in FieldNames : GetItem(n)
    \/ \E n \in FieldNames : FieldLong(n)
    \/ \E n \in FieldNames : NumField(n)
    \/ Pid
    \/ Comm

SpecEvent == InitEvent /\ [][NextEvent]_vars

\* two iterations with events(), each over a CPU of its own, pulled in any
\* interleaving
NextApart ==
    \/ \E cpu \in CpuRange, ts \in Bounds : CallEvents(cpu, ts, 0)
    \/ \E cpu \in CpuRange \ {gen.target_cpu}, ts \in Bounds :
            gen.pc # "none" /\ CallEvents2(cpu, ts, 0)
    \/ Pull
    \/ Pull2

SpecApart == InitKnown /\ [][NextApart]_vars

\* an iteration over one CPU from its first record, and reads once it is over
NextStop ==
    \/ \E cpu \in CpuRange, te \in Bounds : CallEvents(cpu, 0, te)
    \/ \E cpu \in CpuRange, te \in Bounds : CallRecords(cpu, 0, te)
    \/ Pull
    \/ \E cpu \in CpuRange : gen.pc = "exhausted" /\ ReadEvent(cpu)

SpecStop == Init /\ [][NextStop]_vars

\* -------------------------------------------------- properties: iteration

\* whether the generator visits CPU c
Selected(c) == gen.target_cpu = -1 \/ gen.target_cpu = c

\* whether the type-id of record i of CPU c has an event format
HasFormat(c, i) == capture[c][i].type \in formats

\* whether timestamp t is within the end_time bound of the generator
WithinEnd(t) == gen.end_time = 0 \/ t <= gen.end_time

\* the events of CPU c from record i on, in on-disk order
RECURSIVE EventsFrom(_, _)
EventsFrom(c, i) ==
    IF i > Len(capture[c]) THEN <<>>
    ELSE (IF HasFormat(c, i) THEN <<RecordAt(c, i)>> ELSE <<>>)
            \o EventsFrom(c, i + 1)

\* all events of CPU c, then all events of CPU c + 1, and so on
RECURSIVE EventsOfCpusFrom(_)
EventsOfCpusFrom(c) ==
    IF c >= cpus THEN <<>>
    ELSE EventsFrom(c, 1) \o EventsOfCpusFrom(c + 1)

\* the (cpu, timestamp) pairs of a sequence of records or events
Visited(out) == [k \in 1 .. Len(out) |-> <<out[k].cpu, out[k].ts>>]

\* an events() generator that was pulled to its end
EventsDone == gen.pc = "exhausted" /\ gen.kind = "events"

\* C1: events(cpu=-1, start_time=0) on a session with several CPUs yields
\* all events of CPU 0 in on-disk order, then all events of CPU 1, and so
\* on in ascending CPU order, never merged by timestamp.
C1_AllCpusInCpuOrder ==
    (/\ EventsDone
     /\ cpus > 1
     /\ gen.target_cpu = -1
     /\ gen.start_time = 0
     /\ gen.end_time = 0)
        => gen.out = EventsOfCpusFrom(0)

\* The part of C1 that is about the order alone: what is yielded is sorted
\* by CPU, and within a CPU by position in the stream.
C1_OrderOnly ==
    gen.kind = "events" =>
        \A k \in 1 .. (Len(gen.out) - 1) :
            \/ gen.out[k].cpu < gen.out[k + 1].cpu
            \/ /\ gen.out[k].cpu = gen.out[k + 1].cpu
               /\ gen.out[k].offset < gen.out[k + 1].offset

\* C5: the iteration over a selected CPU stops only at the end of the stream
\* or at a record whose timestamp exceeds end_time; a record without a
\* matching schema does not end it: every record with a schema that lies
\* after the seek position and before the first record over end_time is
\* yielded, on every selected CPU.
C5_UnknownTypeDoesNotStop ==
    EventsDone =>
        \A c \in CpuRange :
            Selected(c) =>
                \A i \in FirstAtOrAfter(c, gen.start_time) .. Len(capture[c]) :
                    (/\ HasFormat(c, i)
                     /\ \A j \in FirstAtOrAfter(c, gen.start_time) .. i :
                            WithinEnd(capture[c][j].ts))
                        => \E k \in 1 .. Len(gen.out) :
                                gen.out[k] = RecordAt(c, i)

C7_YieldedWithinRange ==
    (gen.kind = "events" /\ gen.end_time > 0) =>
        \A k \in 1 .. Len(gen.out) :
            gen.start_time <= gen.out[k].ts /\ gen.out[k].ts <= gen.end_time

\* C7, second part: the first event yielded for a selected CPU is the first
\* record of that CPU with timestamp >= start_time.
C7_FirstYieldedIsFirstAtOrAfter ==
    (gen.kind = "events" /\ gen.end_time > 0) =>
        \A k \in 1 .. Len(gen.out) :
            (\A j \in 1 .. (k - 1) : gen.out[j].cpu # gen.out[k].cpu)
                => gen.out[k].offset =
                       FirstAtOrAfter(gen.out[k].cpu, gen.start_time)

\* C7, third part: no in-range record before the first out-of-range one is
\* skipped.
C7_NoInRangeRecordSkipped ==
    (EventsDone /\ gen.end_time > 0) =>
        \A c \in CpuRange :
            Selected(c) =>
                \A i \in 1 .. Len(capture[c]) :
                    (/\ HasFormat(c, i)
                     /\ gen.start_time <= capture[c][i].ts
                     /\ \A j \in 1 .. i : capture[c][j].ts <= gen.end_time)
                        => \E k \in 1 .. Len(gen.out) :
                                gen.out[k] = RecordAt(c, i)

\* C7: every event yielded by events() with a positive end_time has
\* start_time <= ts <= end_time, the first event yielded for each selected
\* CPU is the first record of that CPU with timestamp >= start_time, and no
\* in-range record before the first out-of-range one is skipped.
C7_RangeAndFirst ==
    /\ C7_YieldedWithinRange
    /\ C7_FirstYieldedIsFirstAtOrAfter
    /\ C7_NoInRangeRecordSkipped

\* C8: the events yielded by events(cpu=c) for a single CPU c are records of
\* CPU c, in the order of its stream (none repeated, none reordered), with
\* non-decreasing timestamps.
C8_SingleCpuOnDiskOrder ==
    (gen.kind = "events" /\ gen.target_cpu \in CpuRange) =>
        /\ \A k \in 1 .. Len(gen.out) :
            /\ gen.out[k].cpu = gen.target_cpu
            /\ gen.out[k].offset \in 1 .. Len(capture[gen.target_cpu])
            /\ gen.out[k] = RecordAt(gen.target_cpu, gen.out[k].offset)
        /\ \A k \in 1 .. (Len(gen.out) - 1) :
            /\ gen.out[k].offset < gen.out[k + 1].offset
            /\ gen.out[k].ts <= gen.out[k + 1].ts

\* an iteration over one CPU that yielded two events and ended
C8_Witness ==
    /\ EventsDone
    /\ gen.target_cpu \in CpuRange
    /\ Len(gen.out) >= 2

\* whether sequence a is sequence b with some elements left out
RECURSIVE IsSubsequence(_, _)
IsSubsequence(a, b) ==
    IF a = <<>> THEN TRUE
    ELSE IF b = <<>> THEN FALSE
    ELSE IF Head(a) = Head(b) THEN IsSubsequence(Tail(a), Tail(b))
    ELSE IsSubsequence(a, Tail(b))

\* what events() / records() yield when called with the arguments of the
\* generator that ran
EventsYielded ==
    IF gen.kind = "events" THEN gen.out
    ELSE Drain([gen EXCEPT !.pc = "created", !.kind = "events", !.cpu = 0,
                           !.out = <<>>], handle)

RecordsYielded ==
    IF gen.kind = "records" THEN gen.out
    ELSE Drain([gen EXCEPT !.pc = "created", !.kind = "records", !.cpu = 0,
                           !.out = <<>>], handle)

ReadAfterRewind ==
    /\ last.op = "read_event"
    /\ last.after # <<>>
    /\ last.after[1] = "rewind"

\* C4: rewind(c, T) followed by read_event(c) returns the first record of
\* CPU c whose timestamp is >= T; if T is greater than the timestamp of the
\* last record of CPU c, read_event(c) returns None.
C4_SeekThenReadRecord ==
    ReadAfterRewind =>
        LET c == last.cpu
            i == FirstAtOrAfter(c, last.after[2])
        IN  IF i <= Len(capture[c])
            THEN last.val = Some(RecordAt(c, i))
            ELSE last.val = None

\* C4 as amended: rewind(c, T) followed by read_event(c) consumes the first
\* record of CPU c whose timestamp is >= T and returns its Event when the
\* record's type-id is non-zero and has a matching schema, None when it has
\* not; when no record has a timestamp >= T it returns None.
C4_SeekThenReadEvent ==
    ReadAfterRewind =>
        LET c == last.cpu
            i == FirstAtOrAfter(c, last.after[2])
        IN  IF i <= Len(capture[c])
            THEN /\ handle[c] = i + 1
                 /\ IF capture[c][i].type # 0 /\ HasFormat(c, i)
                    THEN last.val = Some(RecordAt(c, i))
                    ELSE last.val = None
            ELSE last.val = None

\* a seek past the first record, and the read that followed returned an event
C4_Witness ==
    /\ ReadAfterRewind
    /\ last.after[2] > 0
    /\ last.val # None
    /\ last.val[1].offset > 1

\* C9: peek_event(c) does not advance the cursor of CPU c nor of any other
\* CPU: a peek_event(c) or read_event(c) that follows a peek_event(c)
\* returns what that peek returned.
C9_PeekDoesNotAdvance ==
    [][/\ last'.op = "peek_event" => handle' = handle
       /\ (/\ last.op = "peek_event"
           /\ last'.op \in {"peek_event", "read_event"}
           /\ last'.cpu = last.cpu)
            => last'.val = last.val]_vars

\* a read_event(c) right after a peek_event(c), returning an event
C9_Witness ==
    /\ last.op = "read_event"
    /\ last.after = <<"peek_event">>
    /\ last.val # None

\* ---------------------------------------- properties: start_time and end_time

\* the timestamp of the first / last record of CPU c, 0 for an empty stream
FirstTs(c) == IF Len(capture[c]) > 0 THEN capture[c][1].ts ELSE 0
LastTs(c) == IF Len(capture[c]) > 0 THEN capture[c][Len(capture[c])].ts ELSE 0

NonzeroFirsts == {FirstTs(c) : c \in CpuRange} \ {0}
NonzeroLasts == {LastTs(c) : c \in CpuRange} \ {0}

\* C2: repeated accesses of start_time (of end_time) return the identical
\* value on every access, the first one included, and the first / last
\* record of a CPU is looked up at most once.
C2_SameValueOnEveryAccess ==
    [][/\ (/\ last.op \in {"start_time", "end_time"}
           /\ last'.op = last.op
           /\ ~last.raised
           /\ ~last'.raised)
            => last'.val = last.val
       /\ \A c \in CpuRange :
            lookups'[c].first <= 1 /\ lookups'[c].last <= 1]_vars

\* C3: with the default selector, start_time returns the minimum of the
\* nonzero per-CPU first timestamps and end_time the maximum of the per-CPU
\* last timestamps, on every access.
C3_SessionExtremum ==
    /\ (last.op = "start_time" /\ NonzeroFirsts # {})
        => (~last.raised /\ last.val = Some(min(NonzeroFirsts)))
    /\ (last.op = "end_time" /\ NonzeroLasts # {})
        => (~last.raised /\ last.val = Some(max(NonzeroLasts)))

\* C10: an access of start_time or end_time leaves every per-CPU cursor and
\* the running generator as they were: read_event(c) returns after the
\* access what it would have returned before it.
C10_AccessKeepsCursors ==
    [][last'.op \in {"start_time", "end_time"} =>
        /\ handle' = handle
        /\ gen' = gen
        /\ \A c \in CpuRange :
            read_event(handle', c).val = read_event(handle, c).val]_vars

\* start_time was accessed in the middle of an iteration that had moved a
\* cursor, and found a record
C10_Witness ==
    /\ last.op = "start_time"
    /\ ~last.raised
    /\ gen.pc = "suspended"
    /\ \E c \in CpuRange : handle[c] > 1

\* ------------------------------------------------- properties: restarting

\* the cursors of a Trace that has just been opened
FreshHandle == [c \in CpuRange |-> 1]

\* what a generator called like g yields on a Trace that has just been opened
FirstCall(g) == Drain([g EXCEPT !.pc = "created", !.cpu = 0, !.out = <<>>],
                      FreshHandle)

\* C11: a fresh call of events(cpu, start_time, end_time) yields what the
\* first call with these arguments yields on the newly opened Trace,
\* wherever an earlier iteration (finished or abandoned), read_event or
\* rewind had left the cursors.
C11_FreshCallSeeksAgain ==
    gen2.pc = "exhausted" => gen2.out = FirstCall(gen2)

\* the first iteration was abandoned after it had yielded, and the fresh call
\* yielded that event again and more
C11_Witness ==
    /\ gen.pc = "closed"
    /\ Len(gen.out) >= 1
    /\ gen2.pc = "exhausted"
    /\ Len(gen2.out) >= 2
    /\ gen2.out[1] = gen.out[1]

\* ------------------------------------------------- properties: termination

\* the records of the streams the generator visits
SelectedRecords ==
    {<<c, i>> \in CpuRange \X (1 .. MaxRecs) :
        Selected(c) /\ i <= Len(capture[c])}

\* C12: with a single reader, the sequence of events() / records() is
\* finite: the generator never yields more than there are records on the
\* CPUs it visits, and a generator that is pulled on gets exhausted.
C12_FiniteSequence ==
    /\ [](Len(gen.out) <= Cardinality(SelectedRecords))
    /\ (gen.pc = "created" ~> gen.pc = "exhausted")

\* a generator over all CPUs got exhausted after it had yielded every record
C12_Witness ==
    /\ gen.pc = "exhausted"
    /\ gen.target_cpu = -1
    /\ Len(gen.out) = MaxRecs
    /\ \E c \in CpuRange : handle[c] > 1 /\ c > 0

\* ---------------------------------------------- properties: record_to_event

\* C13: record_to_event() returns None exactly when there is no record or
\* the type-id of the record has no event format; for every record whose
\* type-id has one, whatever the id, it returns the Event of that record.
C13_NoneOnlyWithoutSchema ==
    [][last'.op \in {"read_event", "peek_event"} =>
        LET c == last'.cpu
            i == handle[c]
        IN  IF i > Len(capture[c]) \/ capture[c][i].type \notin formats
            THEN last'.val = None
            ELSE /\ last'.val # None
                 /\ last'.val[1].type = capture[c][i].type
                 /\ last'.val[1].offset = i]_vars

\* ------------------------------------------------ properties: construction

\* C14: when the headers cannot be read or the data cannot be initialised,
\* Trace() reports FileFormatError and the caller holds no Trace; a Trace the
\* caller holds has every attribute of __init__ assigned.
C14_NoPartiallyOpenTrace ==
    /\ obj.held => (obj.self = TraceAttrs /\ obj.raised = None)
    /\ (obj.pc = "done" /\ obj.file # "valid")
        => (obj.raised = Some("FileFormatError") /\ ~obj.held)
    /\ (obj.pc = "done" /\ obj.file = "valid") => obj.held
    /\ last.op \notin {"none", "Trace"} => obj.held

\* the data of the file could not be initialised: __init__ raised after it
\* had assigned _handle, and the object did not reach the caller
C14_Witness ==
    /\ obj.pc = "done"
    /\ obj.file = "bad_data"
    /\ obj.self = {"_handle"}
    /\ last.op = "Trace"
    /\ last.raised
    /\ ~obj.held

\* ---------------------------------------------------- properties: Event

\* C15: e[n] for a name n the event format does not declare raises KeyError
\* and changes nothing on the Event: the fields, pid and comm read after it
\* as they would have read without it.
C15_FailedLookupChangesNothing ==
    [][(last'.op = "getitem" /\ last'.arg[1] \notin view.format) =>
        /\ last'.raised
        /\ last'.val = Some("KeyError")
        /\ view' = view
        /\ Event_pid(view').val = Event_pid(view).val
        /\ Event_comm(view').val = Event_comm(view).val
        /\ \A n \in view.format :
            /\ Event_getitem(view', n).val = Event_getitem(view, n).val
            /\ Event_num_field(view', n).val = Event_num_field(view, n).val
       ]_vars

\* a lookup of an undeclared name failed on an Event whose pid and comm had
\* been resolved
C15_Witness ==
    /\ last.op = "getitem"
    /\ last.raised
    /\ last.arg = <<"nonexistent">>
    /\ view._pid # None
    /\ view._comm # None

\* whether the last call was a numeric access of a string field of the format
NumericAccessOfString ==
    /\ last.op \in {"int", "num_field"}
    /\ last.arg[1] \in view.format
    /\ FieldKinds[last.arg[1]] = "string"

\* C16: every numeric access of a string field, int() / long() of the Field
\* and Event.num_field alike, raises FieldError; none returns a value or a
\* placeholder.
C16_NumericAccessRaises ==
    NumericAccessOfString => (last.raised /\ last.val = Some("FieldError"))

\* the part of C16 about int() and long() of a Field
C16_IntOfFieldRaises ==
    (NumericAccessOfString /\ last.op = "int")
        => (last.raised /\ last.val = Some("FieldError"))

\* C17: on one Event the pid and the name are each resolved at most once:
\* an access of pid (of comm) after the first returns the cached value and
\* resolves nothing, and a first access of comm that finds pid unresolved
\* resolves pid once.
C17_ResolvedAtMostOnce ==
    [][/\ view'.calls.pid <= 1
       /\ view'.calls.comm <= 1
       /\ last'.op = "pid" => last'.val = Some(pevent_data_pid(view.data))
       /\ (last'.op = "pid" /\ view._pid # None)
            => (last'.val = view._pid /\ view'.calls = view.calls)
       /\ (last'.op = "comm" /\ view._comm # None)
            => (last'.val = view._comm /\ view'.calls = view.calls)
       /\ (last'.op = "comm" /\ view._comm = None)
            => /\ view'.calls.comm = 1
               /\ view'.calls.pid = 1
               /\ view'._pid = Some(pevent_data_pid(view.data))
               /\ last'.val =
                    Some(pevent_data_comm_from_pid(pevent_data_pid(view.data)))
      ]_vars

\* pid was read on an Event whose name had been resolved before; the pid is 0
C17_Witness ==
    /\ last.op = "pid"
    /\ last.val = Some(0)
    /\ view.calls = [pid |-> 1, comm |-> 1]
    /\ view._comm = Some("<idle>")

\* ------------------------------------------------ properties: two readers

\* whether sequence a is b or the beginning of b
IsPrefix(a, b) ==
    /\ Len(a) <= Len(b)
    /\ \A i \in 1 .. Len(a) : a[i] = b[i]

\* whether generator g has yielded so far what it yields when it runs alone
AsAlone(g) ==
    /\ IsPrefix(g.out, FirstCall(g))
    /\ g.pc = "exhausted" => g.out = FirstCall(g)

\* C18: events(cpu=a) and events(cpu=b) with a # b, both CPUs of the
\* capture, pulled in any interleaving, each yield what they yield when
\* they run alone.
C18_DistinctCpusDoNotInterfere ==
    /\ gen.pc # "none" => AsAlone(gen)
    /\ gen2.pc # "none" => AsAlone(gen2)

\* both iterations are under way: each has yielded, the first is suspended
\* and the second ended after it
C18_Witness ==
    /\ gen.pc = "suspended"
    /\ Len(gen.out) >= 1
    /\ gen2.pc = "exhausted"
    /\ Len(gen2.out) >= 1
    /\ gen.target_cpu # gen2.target_cpu

\* ------------------------------------------------ properties: cache shape

\* whether a cache has cpus + 1 entries: the per-CPU timestamps and then
\* their extremum
WellShaped(cache, PerCpu(_), nonzero, Extremum(_)) ==
    cache # None =>
        /\ Len(cache[1]) = cpus + 1
        /\ \A c \in CpuRange : cache[1][c + 1] = PerCpu(c)
        /\ nonzero # {} => cache[1][cpus + 1] = Extremum(nonzero)

\* C19: _start_time (_end_time) is None or a list of cpus + 1 entries, the
\* first (last) timestamp of every CPU, 0 for an empty stream, and then the
\* minimum (maximum) of the nonzero ones; also after an access on a capture
\* all of whose streams are empty.
C19_CacheShape ==
    /\ WellShaped(_start_time, FirstTs, NonzeroFirsts, min)
    /\ WellShaped(_end_time, LastTs, NonzeroLasts, max)

\* the part of C19 about captures with a record
C19_ShapeWithARecord ==
    (\E c \in CpuRange : Len(capture[c]) > 0) => C19_CacheShape

\* --------------------------------------------- properties: the end_time stop

\* The position, on the CPU of the generator, of the record after the ones
\* it has yielded: the generator started at the first record.
AfterYielded == Len(gen.out) + 1

\* The generator over one CPU has just ended, and it ended at a record
\* whose timestamp exceeds end_time (for events(): a record with an event
\* format, or the iteration ended for the lack of one).
StoppedOverBound ==
    /\ gen.pc = "exhausted"
    /\ last.op = "next"
    /\ gen.end_time > 0
    /\ AfterYielded <= Len(capture[gen.target_cpu])
    /\ capture[gen.target_cpu][AfterYielded].ts > gen.end_time
    /\ gen.kind = "events" => HasFormat(gen.target_cpu, AfterYielded)

====
